---- MODULE Spec2Model ----
(***************************************************************************)
(* A model of src/app.py, the Odyssey AI travel planner: the "Generate"    *)
(* button handler (itinerary generation, enrichment pass, rendering of the *)
(* logistics tab), the polyline decoder and the weather aggregation.       *)
(*                                                                         *)
(* Python values are encoded as follows.                                   *)
(*   - None is the empty tuple; a value that may be None is a one-element  *)
(*     tuple <<v>> when present (None / Some / Val below).                 *)
(*   - A dict is a record whose DOMAIN is the set of keys present, so      *)
(*     `k in d` is  k \in DOMAIN d  and  d[k] = v  adds the key.           *)
(*   - A list is a sequence; Python index i is TLA+ index i + 1.           *)
(*   - A string is a sequence of character codes where its characters      *)
(*     matter (the encoded polyline).                                      *)
(*   - A coordinate is an integer number of 1e-5 degrees.                  *)
(***************************************************************************)
EXTENDS Integers, Sequences, FiniteSets, TLC

\* ------------------------------------------------------------------ bounds

\* Largest number of Day records in a generated itinerary.
MaxDays == 2
\* Largest number of Activity records in a generated itinerary (all days).
MaxTotalActs == 5
\* Largest number of coordinates in a polyline that is encoded and decoded.
MaxPts == 2
\* Largest coordinate magnitude (in 1e-5 degrees) of such a polyline.
CoordMax == 600
\* Largest number of 3-hour records in a weather response.
MaxRecs == 3
\* Number of calendar dates a weather response can span (1 is today).
MaxDates == 2
\* Largest trip duration asked of the weather aggregation.
MaxDur == 2
\* Largest number of Day records, and of Activity records, in an itinerary
\* generated in a session of several script runs.
SessionMaxDays == 2
SessionMaxActs == 2

\* ------------------------------------------------------- program constants

\* st.slider("Trip Duration (Days)", 1, 14, 5): the default duration.
DefaultNumDays == 5
\* st.date_input("Start Date", date.today() + timedelta(days=14)).
DefaultLeadDays == 14
\* results[:10] in find_hotels_nearby.
MaxHotels == 10
\* place_data['photos'][:3] in get_place_details.
MaxPhotos == 3
\* st.session_state.center_lat = 35.6895, center_lon = 139.6917 (Tokyo), in
\* 1e-5 degrees.
TokyoLat == 3568950
TokyoLon == 13969170

\* ----------------------------------------------------------- Python values

None == <<>>
Some(v) == <<v>>
Val(o) == o[1]
\* Truth value of a value that is None or a non-empty / non-zero object.
Truthy(o) == o # None

EmptyDict == [k \in {} |-> 0]
\* d.get(k): the value or None.
DictGet(d, k) == IF k \in DOMAIN d THEN Some(d[k]) ELSE None
\* d.get(k, default)
DictGetOr(d, k, default) == IF k \in DOMAIN d THEN d[k] ELSE default
\* d[k] = v
DictSet(d, k, v) == [x \in (DOMAIN d) \cup {k} |-> IF x = k THEN v ELSE d[x]]

\* seq[:n]
Take(seq, n) == SubSeq(seq, 1, IF n < Len(seq) THEN n ELSE Len(seq))

Min(a, b) == IF a < b THEN a ELSE b

VARIABLES
    \* st.session_state
    itinerary_data, map_data, center_lat, center_lon,
    \* the position of the script run and the locals of the button handler
    pc, day_index, act_index, route_i, day_points, all_points, route_layers,
    \* the locals of tab 3
    hotels, weather,
    \* the weather call's arguments and the provider's answer
    start_date, num_days, forecast,
    \* the polyline decoder's input and output
    polyline_pts, polyline_str, path,
    \* history: the external calls of this script run, in order; what each
    \* place lookup returned; how the language-model call ended and what
    \* generate_itinerary_with_gemini gave back; the exception that ended the
    \* script run, if any
    calls, lookups, gen_outcome, gen_return, crash

vars == <<itinerary_data, map_data, center_lat, center_lon,
          pc, day_index, act_index, route_i, day_points, all_points,
          route_layers, hotels, weather, start_date, num_days, forecast,
          polyline_pts, polyline_str, path,
          calls, lookups, gen_outcome, gen_return, crash>>

session_vars == <<itinerary_data, map_data, center_lat, center_lon>>
loop_vars == <<day_index, act_index, route_i, day_points, all_points, route_layers>>
tab_vars == <<hotels, weather>>
weather_args == <<start_date, num_days, forecast>>
polyline_vars == <<polyline_pts, polyline_str, path>>
history_vars == <<calls, lookups, gen_outcome, gen_return, crash>>


\* ---------------------------------------------------- external responses

\* What requests.get + raise_for_status gives: a RequestException, or the
\* decoded JSON body.
HttpError == [http |-> "error"]
HttpOk(json) == [http |-> "ok", json |-> json]

\* The stand-in for the text of a point of interest: day d, activity k.
PoiName(d, k) == <<d, k>>

\* The Place Details "result" object the provider holds for a place.
PlaceData(place_name) ==
    [name |-> place_name, rating |-> "4.5", formatted_address |-> "address",
     geometry |-> [location |-> [lat |-> 100 * place_name[1] + place_name[2],
                                 lng |-> 200 * place_name[1] + place_name[2]]],
     photos |-> <<[photo_reference |-> "ref"]>>]

\* The answers of the text search.
SearchResponses(place_name) ==
    {HttpError,
     HttpOk([status |-> "ZERO_RESULTS", results |-> <<>>]),
     HttpOk([status |-> "OK", results |-> <<[place_id |-> place_name]>>])}

\* The answers of the details request.
DetailsResponses(place_name) ==
    {HttpError,
     HttpOk([status |-> "NOT_FOUND"]),
     HttpOk([status |-> "OK", result |-> PlaceData(place_name)])}

\* The encoded polyline "_p~iF~ps|U" (one point: 38.5, -120.2).
SamplePolyline == <<95, 112, 126, 105, 70, 126, 112, 115, 124, 85>>

DirectionsResponses ==
    {HttpError,
     HttpOk([status |-> "ZERO_RESULTS", routes |-> <<>>]),
     HttpOk([status |-> "OK",
             routes |-> <<[legs |-> <<[duration |-> [text |-> "15 mins"]]>>,
                           overview_polyline |-> [points |-> SamplePolyline]]>>])}

GeocodeResponses ==
    {HttpError,
     HttpOk([status |-> "ZERO_RESULTS", results |-> <<>>]),
     HttpOk([status |-> "OK",
             results |-> <<[geometry |->
                              [location |-> [lat |-> 3501160, lng |-> 13576810]]]>>])}

NearbyResponses ==
    {HttpError,
     HttpOk([status |-> "ZERO_RESULTS", results |-> <<>>]),
     HttpOk([status |-> "OK",
             results |-> <<[name |-> "hotel", rating |-> "4.0", vicinity |-> "street"]>>])}

\* ------------------------------------------------------- polyline decoder

\* The inner `while True` loop of decode_polyline: reads 5-bit groups from
\* polyline_str[index] on (Python index) until one has no continuation bit.
\* ok is FALSE when the string ends inside a value (an IndexError).
RECURSIVE ReadChunks(_, _, _, _)
ReadChunks(str, index, shift, result) ==
    IF index >= Len(str)
    THEN [ok |-> FALSE, index |-> index, result |-> result]
    ELSE LET byte == str[index + 1] - 63
             res  == result + (byte % 32) * (2 ^ shift)
         IN  IF ~(byte >= 32)
             THEN [ok |-> TRUE, index |-> index + 1, result |-> res]
             ELSE ReadChunks(str, index + 1, shift + 5, res)

\* The decoding without the complement of odd values.
ZigZagNoSign(result) == result \div 2
\* changes[unit] = ~(result >> 1) if result & 1 else (result >> 1)
ZigZag(result) ==
    IF result % 2 = 1 THEN -(result \div 2) - 1 ELSE result \div 2

\* The pair appended for one point: (lng / 1e5, lat / 1e5), in 1e-5 degrees.
Emit(lat, lng) == <<lng, lat>>

\* The outer loop of decode_polyline, from Python index `index` on.
RECURSIVE DecodeFrom(_, _, _, _, _)
DecodeFrom(str, index, lat, lng, coordinates) ==
    IF ~(index < Len(str))
    THEN [raised |-> FALSE, coordinates |-> coordinates]
    ELSE LET a == ReadChunks(str, index, 0, 0)
             b == ReadChunks(str, a.index, 0, 0)
         IN  IF ~a.ok \/ ~b.ok
             THEN [raised |-> TRUE, coordinates |-> coordinates]
             ELSE LET lat2 == lat + ZigZag(a.result)
                      lng2 == lng + ZigZag(b.result)
                  IN  DecodeFrom(str, b.index, lat2, lng2,
                                 Append(coordinates, Emit(lat2, lng2)))

decode_polyline(polyline_str_) == DecodeFrom(polyline_str_, 0, 0, 0, <<>>)

\* The standard encoded-polyline encoding of one signed value: shift left,
\* complement when negative, then 5-bit groups, least significant first, each
\* but the last with the continuation bit 0x20, each plus 63.
RECURSIVE EncodeUnsigned(_)
EncodeUnsigned(u) ==
    IF u >= 32 THEN <<(32 + (u % 32)) + 63>> \o EncodeUnsigned(u \div 32)
    ELSE <<u + 63>>

EncodeSigned(v) == EncodeUnsigned(IF v < 0 THEN -(2 * v) - 1 ELSE 2 * v)

\* The encoding of a sequence of points [lat, lng]: per point the latitude
\* delta then the longitude delta from the previous point (from 0, 0).
RECURSIVE EncodeFrom(_, _, _, _)
EncodeFrom(pts, i, lat, lng) ==
    IF i > Len(pts) THEN <<>>
    ELSE EncodeSigned(pts[i].lat - lat) \o EncodeSigned(pts[i].lng - lng)
         \o EncodeFrom(pts, i + 1, pts[i].lat, pts[i].lng)

encode_polyline(pts) == EncodeFrom(pts, 1, 0, 0)

\* ------------------------------------------------------------ API clients

PhotoUrl(photo) == [kind |-> "photo", photoreference |-> photo.photo_reference]
PlaceholderUrl(place_name) == [kind |-> "placehold", text |-> place_name]

PhotoUrls(photos) == [i \in 1..Len(photos) |-> PhotoUrl(photos[i])]

\* The details dict built from place_data (lines 54-72).
BuildDetails(place_name, place_data) ==
    LET location == DictGetOr(DictGetOr(place_data, "geometry", EmptyDict),
                              "location", EmptyDict)
        photos == IF "photos" \in DOMAIN place_data
                  THEN PhotoUrls(Take(place_data.photos, MaxPhotos))
                  ELSE <<>>
    IN  [name |-> DictGet(place_data, "name"),
         rating |-> DictGetOr(place_data, "rating", "N/A"),
         address |-> DictGet(place_data, "formatted_address"),
         lat |-> DictGet(location, "lat"),
         lon |-> DictGet(location, "lng"),
         website |-> DictGet(place_data, "website"),
         map_url |-> DictGet(place_data, "url"),
         photos |-> IF photos = <<>> THEN <<PlaceholderUrl(place_name)>> ELSE photos]

\* get_place_details, given the answers of its two requests (the second is
\* only sent when the search has results): None, or the details dict.
get_place_details(place_name, search, details) ==
    IF search.http = "error" THEN None
    ELSE IF DictGetOr(search.json, "results", <<>>) = <<>> THEN None
    ELSE IF details.http = "error" THEN None
    ELSE Some(BuildDetails(place_name, DictGetOr(details.json, "result", EmptyDict)))

\* get_directions_and_route: the pair (path, duration).
get_directions_and_route(resp) ==
    IF resp.http = "error" THEN <<None, "N/A">>
    ELSE IF resp.json.status # "OK" \/ resp.json.routes = <<>> THEN <<None, "N/A">>
    ELSE LET route == resp.json.routes[1].legs[1]
             duration == route.duration.text
             points == resp.json.routes[1].overview_polyline.points
         IN  <<Some(decode_polyline(points).coordinates), duration>>

\* get_destination_coords: (lat, lng) when the status is OK, (None, None) on
\* a RequestException, and None (no return statement is reached) otherwise.
get_destination_coords(resp) ==
    IF resp.http = "error" THEN <<None, None>>
    ELSE IF resp.json.status = "OK"
    THEN LET location == resp.json.results[1].geometry.location
         IN  <<Some(location.lat), Some(location.lng)>>
    ELSE None

\* find_hotels_nearby: the list of hotels, [] on a RequestException.
Hotel(place) ==
    [name |-> DictGet(place, "name"),
     rating |-> DictGetOr(place, "rating", "N/A"),
     vicinity |-> DictGet(place, "vicinity")]

find_hotels_nearby(resp) ==
    IF resp.http = "error" THEN <<>>
    ELSE LET results == Take(DictGetOr(resp.json, "results", <<>>), MaxHotels)
         IN  [i \in 1..Len(results) |-> Hotel(results[i])]


\* ----------------------------------------------------- weather aggregation

\* item['dt_txt'].split(' ')[0]: dt_txt is the pair <<date, time of day>>.
DatePart(dt_txt) == dt_txt[1]

\* Python index of `day` among the keys of daily_forecasts, or -1.
RECURSIVE KeyIndex(_, _, _)
KeyIndex(daily, day, i) ==
    IF i > Len(daily) THEN -1
    ELSE IF daily[i].day = day THEN i - 1
    ELSE KeyIndex(daily, day, i + 1)

\* The loop of lines 134-138. daily_forecasts, a dict that keeps its keys in
\* insertion order, is the sequence of its entries [day, temps, weather].
RECURSIVE GroupByDay(_, _, _)
GroupByDay(list, i, daily) ==
    IF i > Len(list) THEN daily
    ELSE LET item == list[i]
             day == DatePart(item.dt_txt)
             at == KeyIndex(daily, day, 1)
             with_day == IF at = -1
                         THEN Append(daily, [day |-> day, temps |-> <<>>, weather |-> <<>>])
                         ELSE daily
             pos == IF at = -1 THEN Len(with_day) ELSE at + 1
             entry == with_day[pos]
         IN  GroupByDay(list, i + 1,
                 [with_day EXCEPT ![pos] =
                     [day |-> day,
                      temps |-> Append(entry.temps, item.main.temp),
                      weather |-> Append(entry.weather, item.weather[1])]])

\* list.count(x): the elements equal to x (dicts compare by all their keys).
ListCount(list, x) == Cardinality({i \in 1..Len(list) : list[i] = x})
\* max(list, key=list.count): the first element whose count is largest.
MaxByCount(list) ==
    LET best == CHOOSE i \in 1..Len(list) :
                   /\ \A j \in 1..Len(list) : ListCount(list, list[j]) <= ListCount(list, list[i])
                   /\ \A j \in 1..(i - 1) : ListCount(list, list[j]) < ListCount(list, list[i])
    IN  list[best]

RECURSIVE SumSeq(_, _)
SumSeq(seq, i) == IF i > Len(seq) THEN 0 ELSE seq[i] + SumSeq(seq, i + 1)

\* round(sum / n, 1) for temperatures held in tenths of a degree: the nearest
\* tenth, an exact half going to the even tenth (binary representation error
\* of the float quotient is not modelled).
RoundedMean(temps) ==
    LET total == SumSeq(temps, 1)
        n == Len(temps)
        q == total \div n
        r == total % n
    IN  IF 2 * r > n THEN q + 1
        ELSE IF 2 * r < n THEN q
        ELSE IF q % 2 = 0 THEN q ELSE q + 1

IconUrl(icon) == <<"http://openweathermap.org/img/wn/", icon, "@2x.png">>

\* The loop of lines 140-147: one record per key of daily_forecasts.
ProcessDay(data) ==
    LET main_weather == MaxByCount(data.weather)
    IN  [date |-> data.day, avg_temp |-> RoundedMean(data.temps),
         condition |-> main_weather.main, icon |-> IconUrl(main_weather.icon)]

ProcessedForecast(daily) == [i \in 1..Len(daily) |-> ProcessDay(daily[i])]

\* The whole list, whatever the duration.
TruncateNot(processed, duration) == processed
\* processed_forecast[:duration]
Truncate(processed, duration) == Take(processed, duration)

\* get_weather_forecast(lat, lon, start_date, duration), given the provider's
\* answer: None on a RequestException, else the aggregated list. lat and lon
\* only go into the URL, and start_date is not read at all.
get_weather_forecast(start_date_, duration, resp) ==
    IF resp.http = "error" THEN None
    ELSE Some(Truncate(ProcessedForecast(GroupByDay(resp.json.list, 1, <<>>)), duration))


\* ------------------------------------------------------ itinerary generator

\* The number of activities of each day of a generated itinerary.
RECURSIVE SumShape(_, _)
SumShape(shape, i) == IF i > Len(shape) THEN 0 ELSE shape[i] + SumShape(shape, i + 1)

\* The shapes of n days the bounds admit.
Shapes(n) == {shape \in [1..n -> 0..MaxTotalActs] : SumShape(shape, 1) <= MaxTotalActs}

Activity(d, k) ==
    [time_of_day |-> "Morning", poi_name |-> PoiName(d, k), description |-> "text"]

Day(d, n) ==
    [day |-> d, theme |-> "theme", activities |-> [k \in 1..n |-> Activity(d, k)]]

\* The JSON object the prompt asks for.
TripJson(shape) ==
    [trip |-> [trip_title |-> "title", summary |-> "summary",
               itinerary |-> [d \in 1..Len(shape) |-> Day(d, shape[d])]]]

\* What model.generate_content does: it raises, or it answers with a text,
\* here the text's body (a JSON document, or something json.loads rejects),
\* bare or inside a ```json fence.
ModelResponses ==
    {[raises |-> TRUE]}
    \cup {[raises |-> FALSE, fenced |-> f, body |-> [valid |-> FALSE]] : f \in BOOLEAN}
    \cup UNION {{[raises |-> FALSE, fenced |-> f,
                   body |-> [valid |-> TRUE, json |-> TripJson(shape)]] :
                     f \in BOOLEAN, shape \in Shapes(n)} : n \in 0..MaxDays}

\* response.text.strip().replace("```json", "").replace("```", "")
StripFences(resp) == resp.body

\* generate_itinerary_with_gemini (lines 239-247). The except clause reads
\* response.text: when generate_content raised, `response` was never bound
\* and the handler itself raises UnboundLocalError.
generate_itinerary_with_gemini(resp) ==
    IF resp.raises
    THEN [raised |-> "UnboundLocalError", value |-> None]
    ELSE LET cleaned_response == StripFences(resp)
         IN  IF cleaned_response.valid
             THEN [raised |-> "none", value |-> Some(cleaned_response.json)]
             ELSE [raised |-> "none", value |-> None]

\* ----------------------------------------------------------- the handler

Call(kind, day) == [kind |-> kind, day |-> day]

\* itinerary_days of the held itinerary.
Days == Val(itinerary_data).trip.itinerary
\* The day the loop of line 309 is at.
CurrentDay == Days[day_index]

\* The itinerary with activity k (TLA+ index) of day d replaced.
WithActivity(d, k, activity) ==
    Some([Val(itinerary_data) EXCEPT !.trip.itinerary[d].activities[k] = activity])

\* A second call when the first one raised.
ModelCallsRetry(resp) ==
    IF resp.raises THEN <<Call("llm", 0), Call("llm", 0)>> ELSE <<Call("llm", 0)>>
\* The language-model calls of one generate_itinerary_with_gemini: line 241,
\* once, whatever it answers.
ModelCalls(resp) == <<Call("llm", 0)>>

\* Lines 285-296: the button is pressed with name and destination filled in,
\* and the language model answers with one of `responses`.
Generate(responses) ==
    /\ pc = "idle"
    /\ \E resp \in responses :
          LET r == generate_itinerary_with_gemini(resp)
          IN  /\ calls' = calls \o ModelCalls(resp)
              /\ gen_outcome' = (IF resp.raises THEN "call_raised"
                                 ELSE IF resp.body.valid THEN "valid" ELSE "invalid_json")
              /\ IF r.raised # "none"
                 THEN /\ gen_return' = "raised"
                      /\ crash' = r.raised
                      /\ pc' = "stopped"
                      /\ UNCHANGED itinerary_data
                 ELSE /\ gen_return' = (IF r.value = None THEN "None" ELSE "itinerary")
                      /\ itinerary_data' = r.value
                      /\ pc' = (IF Truthy(r.value) THEN "geocode" ELSE "main")
                      /\ UNCHANGED crash
    /\ UNCHANGED <<map_data, center_lat, center_lon, loop_vars, tab_vars,
                   weather_args, polyline_vars, lookups>>

ClickGenerate == Generate(ModelResponses)

\* Lines 301-307: the two targets of the assignment need a pair.
Geocode ==
    /\ pc = "geocode"
    /\ \E resp \in GeocodeResponses :
          LET r == get_destination_coords(resp)
          IN  /\ calls' = Append(calls, Call("geocode", 0))
              /\ IF Len(r) = 2
                 THEN /\ center_lat' = r[1]
                      /\ center_lon' = r[2]
                      /\ all_points' = <<>>
                      /\ route_layers' = <<>>
                      /\ day_index' = 0
                      /\ pc' = "day_loop"
                      /\ UNCHANGED crash
                 ELSE /\ crash' = "TypeError"
                      /\ pc' = "stopped"
                      /\ UNCHANGED <<center_lat, center_lon, all_points,
                                     route_layers, day_index>>
    /\ UNCHANGED <<itinerary_data, map_data, act_index, route_i, day_points,
                   tab_vars, weather_args, polyline_vars, lookups,
                   gen_outcome, gen_return>>

\* Lines 309-310: the head of the loop over the days.
DayLoop ==
    /\ pc = "day_loop"
    /\ IF day_index < Len(Days)
       THEN /\ day_index' = day_index + 1
            /\ day_points' = <<>>
            /\ act_index' = 0
            /\ pc' = "act_loop"
       ELSE /\ pc' = "store"
            /\ UNCHANGED <<day_index, day_points, act_index>>
    /\ UNCHANGED <<session_vars, route_i, all_points, route_layers, tab_vars,
                   weather_args, polyline_vars, history_vars>>

\* Lines 311-317: one activity of the day.
PlaceLookup ==
    /\ pc = "act_loop"
    /\ act_index < Len(CurrentDay.activities)
    /\ LET activity == CurrentDay.activities[act_index + 1]
       IN  \E search \in SearchResponses(activity.poi_name),
              answer \in DetailsResponses(activity.poi_name) :
             LET details == get_place_details(activity.poi_name, search, answer)
                 resolved == Truthy(details) /\ Truthy(Val(details).lat)
                 point == [lat |-> Val(Val(details).lat), lon |-> Val(Val(details).lon),
                           name |-> Val(details).name, day |-> CurrentDay.day]
             IN  /\ itinerary_data' = WithActivity(day_index, act_index + 1,
                                          DictSet(activity, "details", details))
                 /\ day_points' = (IF resolved THEN Append(day_points, point) ELSE day_points)
                 /\ all_points' = (IF resolved THEN Append(all_points, point) ELSE all_points)
                 /\ lookups' = lookups \cup
                        {[day |-> day_index, idx |-> act_index + 1, result |-> details]}
    /\ calls' = Append(calls, Call("place", day_index))
    /\ act_index' = act_index + 1
    /\ UNCHANGED <<map_data, center_lat, center_lon, pc, day_index, route_i,
                   route_layers, tab_vars, weather_args, polyline_vars,
                   gen_outcome, gen_return, crash>>

\* The loop of line 311 is exhausted; line 320 starts.
EndActivities ==
    /\ pc = "act_loop"
    /\ ~(act_index < Len(CurrentDay.activities))
    /\ route_i' = 0
    /\ pc' = "route_loop"
    /\ UNCHANGED <<session_vars, day_index, act_index, day_points, all_points,
                   route_layers, tab_vars, weather_args, polyline_vars, history_vars>>

\* The index of the first activity of the pair.
AnnotatedIndexFirst(i) == i
\* Line 325: the Python index of the activity that gets the duration of the
\* leg from day_points[i] to day_points[i+1].
AnnotatedIndex(i) == i + 1

\* Line 333: the colour of a day's routes.
RouteColor(day) == IF day = 1 THEN "red" ELSE IF day = 2 THEN "blue" ELSE "green"

\* Lines 320-335: one consecutive pair of the day's resolved points.
RouteStep ==
    /\ pc = "route_loop"
    /\ route_i < Len(day_points) - 1
    /\ \E resp \in DirectionsResponses :
          LET r == get_directions_and_route(resp)
              duration == r[2]
              k == AnnotatedIndex(route_i) + 1
              activity == CurrentDay.activities[k]
          IN  /\ itinerary_data' = WithActivity(day_index, k,
                     DictSet(activity, "travel_from_previous",
                             <<"~ ", duration, " by transit">>))
              /\ route_layers' =
                     (IF r[1] # None /\ Val(r[1]) # <<>>
                      THEN Append(route_layers,
                                  [type |-> "PathLayer", path |-> Val(r[1]),
                                   get_color |-> RouteColor(CurrentDay.day)])
                      ELSE route_layers)
    /\ calls' = Append(calls, Call("route", day_index))
    /\ route_i' = route_i + 1
    /\ UNCHANGED <<map_data, center_lat, center_lon, pc, day_index, act_index,
                   day_points, all_points, tab_vars, weather_args, polyline_vars,
                   lookups, gen_outcome, gen_return, crash>>

\* The loop of line 320 is exhausted: back to the head of the day loop.
EndRoutes ==
    /\ pc = "route_loop"
    /\ ~(route_i < Len(day_points) - 1)
    /\ pc' = "day_loop"
    /\ UNCHANGED <<session_vars, loop_vars, tab_vars, weather_args,
                   polyline_vars, history_vars>>

\* Line 337.
StoreMapData ==
    /\ pc = "store"
    /\ map_data' = Some([points |-> all_points, routes |-> route_layers])
    /\ pc' = "main"
    /\ UNCHANGED <<itinerary_data, center_lat, center_lon, loop_vars, tab_vars,
                   weather_args, polyline_vars, history_vars>>

\* Lines 346-354: the tabs are rendered only when an itinerary is held.
MainInterface ==
    /\ pc = "main"
    /\ pc' = (IF Truthy(itinerary_data) THEN "hotels" ELSE "done")
    /\ UNCHANGED <<session_vars, loop_vars, tab_vars, weather_args,
                   polyline_vars, history_vars>>

\* Lines 412-418.
RenderHotels ==
    /\ pc = "hotels"
    /\ IF Truthy(center_lat)
       THEN \E resp \in NearbyResponses :
               /\ hotels' = find_hotels_nearby(resp)
               /\ calls' = Append(calls, Call("lodging", 0))
       ELSE UNCHANGED <<hotels, calls>>
    /\ pc' = "weather"
    /\ UNCHANGED <<session_vars, loop_vars, weather, weather_args, polyline_vars,
                   lookups, gen_outcome, gen_return, crash>>


\* One 3-hour record of the forecast list; `slot` stands for the time of day.
ForecastItem(date, slot, temp, entry) ==
    [dt_txt |-> <<date, slot>>, main |-> [temp |-> temp], weather |-> <<entry>>]

\* The answers of the forecast request when the logistics tab is rendered.
SampleWeatherResponses ==
    {HttpError,
     HttpOk([list |-> <<ForecastItem(1, 1, 120, [main |-> "Clear", icon |-> "01d"]),
                        ForecastItem(2, 2, 170, [main |-> "Rain", icon |-> "10d"])>>])}

\* Lines 421-431.
RenderWeather ==
    /\ pc = "weather"
    /\ IF Truthy(center_lat)
       THEN \E resp \in SampleWeatherResponses :
               /\ weather' = get_weather_forecast(start_date, num_days, resp)
               /\ calls' = Append(calls, Call("weather", 0))
       ELSE UNCHANGED <<weather, calls>>
    /\ pc' = "done"
    /\ UNCHANGED <<session_vars, loop_vars, hotels, weather_args, polyline_vars,
                   lookups, gen_outcome, gen_return, crash>>

\* The values of the variables a specification does not use.
HandlerIdle ==
    /\ itinerary_data = None
    /\ map_data = None
    /\ center_lat = Some(TokyoLat)
    /\ center_lon = Some(TokyoLon)
    /\ day_index = 0
    /\ act_index = 0
    /\ route_i = 0
    /\ day_points = <<>>
    /\ all_points = <<>>
    /\ route_layers = <<>>
    /\ hotels = <<>>
    /\ calls = <<>>
    /\ lookups = {}
    /\ gen_outcome = "none"
    /\ gen_return = "none"
    /\ crash = "none"

PolylineIdle ==
    /\ polyline_pts = <<>>
    /\ polyline_str = <<>>
    /\ path = [raised |-> FALSE, coordinates |-> <<>>]

\* Lines 28-35, and the sidebar's defaults (lines 263-265; today is date 1).
Init ==
    /\ pc = "idle"
    /\ HandlerIdle
    /\ PolylineIdle
    /\ weather = None
    /\ start_date = 1 + DefaultLeadDays
    /\ num_days = DefaultNumDays
    /\ forecast = HttpError

Next ==
    \/ ClickGenerate
    \/ Geocode
    \/ DayLoop
    \/ PlaceLookup
    \/ EndActivities
    \/ RouteStep
    \/ EndRoutes
    \/ StoreMapData
    \/ MainInterface
    \/ RenderHotels
    \/ RenderWeather

Spec == Init /\ [][Next]_vars

\* ------------------------------------------ the polyline decoder on its own

CoordValues == {-CoordMax, -1, 0, 16, CoordMax}

Points == {[lat |-> a, lng |-> b] : a \in CoordValues, b \in CoordValues}

InitPolyline ==
    /\ pc = "encoded"
    /\ HandlerIdle
    /\ weather = None
    /\ start_date = 1
    /\ num_days = 1
    /\ forecast = HttpError
    /\ \E n \in 0..MaxPts : polyline_pts \in [1..n -> Points]
    /\ polyline_str = encode_polyline(polyline_pts)
    /\ path = [raised |-> FALSE, coordinates |-> <<>>]

\* Line 118: path = decode_polyline(polyline_str)
DecodePolyline ==
    /\ pc = "encoded"
    /\ path' = decode_polyline(polyline_str)
    /\ pc' = "decoded"
    /\ UNCHANGED <<session_vars, loop_vars, tab_vars, weather_args,
                   polyline_pts, polyline_str, history_vars>>

NextPolyline == DecodePolyline

SpecPolyline == InitPolyline /\ [][NextPolyline]_vars

\* --------------------------------------- the weather aggregation on its own

WeatherEntries ==
    {[main |-> "Clear", icon |-> "01d"], [main |-> "Clear", icon |-> "01n"],
     [main |-> "Rain", icon |-> "10d"]}

Temps == {120, 175}

\* The forecast lists of n records: any dates, temperatures and entries.
ForecastList(f) == [i \in 1..Len(f) |-> ForecastItem(f[i][1], i, f[i][2], f[i][3])]

InitWeather ==
    /\ pc = "forecast"
    /\ HandlerIdle
    /\ PolylineIdle
    /\ weather = None
    /\ start_date \in {1, 1 + DefaultLeadDays}
    /\ num_days \in 1..MaxDur
    /\ \/ forecast = HttpError
       \/ \E n \in 0..MaxRecs :
             \E f \in [1..n -> (1..MaxDates) \X Temps \X WeatherEntries] :
                forecast = HttpOk([list |-> ForecastList(f)])

\* Line 422: weather = get_weather_forecast(lat, lon, start_date, num_days)
CallWeather ==
    /\ pc = "forecast"
    /\ weather' = get_weather_forecast(start_date, num_days, forecast)
    /\ pc' = "aggregated"
    /\ UNCHANGED <<session_vars, loop_vars, hotels, weather_args, polyline_vars,
                   history_vars>>

NextWeather == CallWeather

SpecWeather == InitWeather /\ [][NextWeather]_vars


\* ------------------------------------------- a session of several script runs

\* The answers of the language model in a session: as ModelResponses, with
\* the itineraries within the session's bounds.
SessionShapes(n) ==
    {shape \in [1..n -> 0..SessionMaxActs] : SumShape(shape, 1) <= SessionMaxActs}

SessionModelResponses ==
    {[raises |-> TRUE], [raises |-> FALSE, fenced |-> FALSE, body |-> [valid |-> FALSE]]}
    \cup UNION {{[raises |-> FALSE, fenced |-> FALSE,
                   body |-> [valid |-> TRUE, json |-> TripJson(shape)]] :
                     shape \in SessionShapes(n)} : n \in 0..SessionMaxDays}

SessionClickGenerate == Generate(SessionModelResponses)

\* A script run has ended, normally or by an exception, and a widget
\* interaction starts the next one: st.session_state (lines 28-35 assign
\* only the missing keys) is kept, every local of the script starts afresh.
Rerun ==
    /\ pc \in {"done", "stopped"}
    /\ pc' = "idle"
    /\ day_index' = 0
    /\ act_index' = 0
    /\ route_i' = 0
    /\ day_points' = <<>>
    /\ all_points' = <<>>
    /\ route_layers' = <<>>
    /\ hotels' = <<>>
    /\ weather' = None
    /\ calls' = <<>>
    /\ lookups' = {}
    /\ gen_outcome' = "none"
    /\ gen_return' = "none"
    /\ crash' = "none"
    /\ UNCHANGED <<session_vars, weather_args, polyline_vars>>

\* Line 285 in a run the button did not start: st.button is False, the
\* handler is skipped and the script goes on to the main interface.
RunWithoutClick ==
    /\ pc = "idle"
    /\ pc' = "main"
    /\ UNCHANGED <<session_vars, loop_vars, tab_vars, weather_args,
                   polyline_vars, history_vars>>

NextSession ==
    \/ SessionClickGenerate
    \/ RunWithoutClick
    \/ Geocode
    \/ DayLoop
    \/ PlaceLookup
    \/ EndActivities
    \/ RouteStep
    \/ EndRoutes
    \/ StoreMapData
    \/ MainInterface
    \/ RenderHotels
    \/ RenderWeather
    \/ Rerun

SpecSession == Init /\ [][NextSession]_vars

\* ------------------------------------------------------------------ claims

\* generate_itinerary_with_gemini returned an itinerary in this script run.
Generated == gen_return = "itinerary"

\* The enrichment pass of this script run is over: it reached line 337, or an
\* exception ended it.
PassEnded ==
    /\ Generated
    /\ \/ pc \in {"main", "hotels", "weather", "done"}
       \/ pc = "stopped"

\* The place lookup of an activity resolved coordinates (line 314).
Resolved(activity) ==
    /\ "details" \in DOMAIN activity
    /\ Truthy(activity.details)
    /\ Truthy(Val(activity.details).lat)

HasTravel(activity) == "travel_from_previous" \in DOMAIN activity

\* What get_place_details returned for activity k of day d, if it was called.
LookupsOf(d, k) == {l \in lookups : l.day = d /\ l.idx = k}

\* Every activity of every day carries a 'details' field, equal to what its
\* own lookup returned: None exactly when that lookup failed.
EveryActivityEnriched ==
    \A d \in 1..Len(Days) : \A k \in 1..Len(Days[d].activities) :
        LET activity == Days[d].activities[k]
        IN  /\ "details" \in DOMAIN activity
            /\ Cardinality(LookupsOf(d, k)) = 1
            /\ \A l \in LookupsOf(d, k) :
                  /\ activity.details = l.result
                  /\ (activity.details = None) <=> (l.result = None)

\* C1: once the enrichment pass of a generated itinerary is over, every
\* activity of every day has been visited and carries a 'details' field that
\* is None exactly when its own place lookup failed and that lookup's result
\* otherwise.
C1_EveryActivityEnriched == PassEnded => EveryActivityEnriched

\* The same statement for the passes that reach line 337.
C1_WhenPassCompletes ==
    (Generated /\ pc \in {"main", "hotels", "weather", "done"}) => EveryActivityEnriched

\* C2: after the enrichment pass, an activity at position k >= 2 of a day
\* carries 'travel_from_previous' only when it and the activity at position
\* k - 1 of the same day both resolved coordinates.
C2_TravelOnlyWhenBothResolved ==
    PassEnded =>
        \A d \in 1..Len(Days) : \A k \in 2..Len(Days[d].activities) :
            HasTravel(Days[d].activities[k]) =>
                /\ Resolved(Days[d].activities[k])
                /\ Resolved(Days[d].activities[k - 1])

\* C3: the first activity of every day of the held itinerary never carries
\* 'travel_from_previous', at any point of the script run.
C3_FirstActivityNoTravel ==
    Truthy(itinerary_data) =>
        \A d \in 1..Len(Days) :
            Len(Days[d].activities) >= 1 => ~HasTravel(Days[d].activities[1])

\* A finished run in which a routing call annotated the second activity of a
\* day whose first activity resolved coordinates.
C3_Witness ==
    /\ pc = "done"
    /\ Generated
    /\ \E d \in 1..Len(Days) :
          /\ Len(Days[d].activities) >= 2
          /\ HasTravel(Days[d].activities[2])
          /\ Resolved(Days[d].activities[1])
          /\ \E i \in 1..Len(calls) : calls[i] = Call("route", d)

\* C4: whatever the external lookups answer, the enrichment pass of a
\* generated itinerary is never ended by an exception, and once it is over
\* the map dataset of that itinerary is stored.
C4_EnrichmentNeverAborts ==
    Generated =>
        /\ crash = "none"
        /\ pc # "stopped"
        /\ PassEnded => map_data = Some([points |-> all_points, routes |-> route_layers])

EnrichmentKinds == {"geocode", "place", "route"}

\* C5: when the language-model call raised or its text is not valid JSON,
\* generate_itinerary_with_gemini returns None, no itinerary is held
\* afterwards, and no geocoding, place or directions call is made.
C5_GenerationFailureTerminal ==
    gen_outcome \in {"call_raised", "invalid_json"} =>
        /\ gen_return = "None"
        /\ itinerary_data = None
        /\ \A i \in 1..Len(calls) : calls[i].kind \notin EnrichmentKinds


\* C6: decode_polyline of the standard encoding of a sequence of points
\* returns those points in order, each as the pair (longitude, latitude); the
\* empty sequence is encoded as the empty string and decoded from it.
C6_PolylineRoundTrip ==
    /\ (polyline_pts = <<>>) => (polyline_str = <<>>)
    /\ pc = "decoded" =>
          /\ ~path.raised
          /\ Len(path.coordinates) = Len(polyline_pts)
          /\ \A i \in 1..Len(polyline_pts) :
                path.coordinates[i] = <<polyline_pts[i].lng, polyline_pts[i].lat>>

\* A decoded polyline of two points or more, the second south-west of the
\* first (negative deltas), with a delta that takes several characters.
C6_Witness ==
    /\ pc = "decoded"
    /\ Len(polyline_pts) >= 2
    /\ polyline_pts[2].lat < polyline_pts[1].lat
    /\ polyline_pts[2].lng < polyline_pts[1].lng
    /\ polyline_pts[1].lat # polyline_pts[1].lng
    /\ Len(polyline_str) > 2 * Len(polyline_pts)

\* The dates of the forecast records, in list order.
RecordDates(list) == [i \in 1..Len(list) |-> DatePart(list[i].dt_txt)]

\* The positions at which a date appears for the first time.
FirstPositions(dates) ==
    {i \in 1..Len(dates) : \A j \in 1..(i - 1) : dates[j] # dates[i]}

\* The date at the n-th first appearance.
NthDistinct(dates, n) ==
    LET i == CHOOSE x \in FirstPositions(dates) :
                 Cardinality({y \in FirstPositions(dates) : y < x}) = n - 1
    IN  dates[i]

\* The forecast list a successful weather call aggregated.
Answered == pc = "aggregated" /\ forecast.http = "ok"

\* C7: the aggregation of records spanning K distinct dates, for a duration
\* D, returns min(K, D) records, one per date: the first min(K, D) distinct
\* dates in order of first appearance.
C7_WeatherShape ==
    Answered =>
        LET dates == RecordDates(forecast.json.list)
            K == Cardinality(FirstPositions(dates))
            out == Val(weather)
        IN  /\ weather # None
            /\ Len(out) = Min(K, num_days)
            /\ \A n \in 1..Len(out) : out[n].date = NthDistinct(dates, n)

\* An aggregation that truncates: more dates than the duration, the later
\* date appearing first.
C7_Witness ==
    /\ Answered
    /\ Cardinality(FirstPositions(RecordDates(forecast.json.list))) > num_days
    /\ Len(forecast.json.list) >= 3
    /\ DatePart(forecast.json.list[1].dt_txt) > DatePart(forecast.json.list[2].dt_txt)
    /\ Len(Val(weather)) = num_days

\* The condition labels of the records of one date, in list order.
RECURSIVE LabelsOf(_, _, _)
LabelsOf(list, date, i) ==
    IF i > Len(list) THEN <<>>
    ELSE (IF DatePart(list[i].dt_txt) = date THEN <<list[i].weather[1].main>> ELSE <<>>)
         \o LabelsOf(list, date, i + 1)

Occurrences(labels, x) == Cardinality({i \in 1..Len(labels) : labels[i] = x})

\* The most frequent label, the first to appear among the most frequent.
DominantLabel(labels) ==
    LET i == CHOOSE x \in 1..Len(labels) :
                 /\ \A y \in 1..Len(labels) :
                       Occurrences(labels, labels[y]) <= Occurrences(labels, labels[x])
                 /\ \A y \in 1..(x - 1) :
                       Occurrences(labels, labels[y]) < Occurrences(labels, labels[x])
    IN  labels[i]

\* C8: the condition reported for a date is the label that occurs most often
\* among that date's records, the first such label on a tie, whatever the
\* other fields of the weather entries.
C8_DominantLabel ==
    Answered =>
        \A n \in 1..Len(Val(weather)) :
            Val(weather)[n].condition =
                DominantLabel(LabelsOf(forecast.json.list, Val(weather)[n].date, 1))

\* C9: every record the weather call returns is dated within the trip
\* window, start_date through start_date + num_days - 1.
C9_DatesInTripWindow ==
    Answered =>
        \A n \in 1..Len(Val(weather)) :
            /\ start_date <= Val(weather)[n].date
            /\ Val(weather)[n].date <= start_date + num_days - 1

\* The language-model call is the first call of the run and the only one of
\* its kind.
OneModelCallFirst ==
    pc # "idle" =>
        /\ Len(calls) >= 1
        /\ calls[1].kind = "llm"
        /\ \A i \in 2..Len(calls) : calls[i].kind # "llm"

\* The place of a call kind in the sweep the claim describes.
SweepRank(kind) ==
    IF kind = "place" THEN 1
    ELSE IF kind = "route" THEN 2
    ELSE IF kind = "weather" THEN 3
    ELSE 4

SweepKinds == {"place", "route", "weather", "lodging"}

\* C10 as stated: one language-model call, first; then place lookups, then
\* routing calls, then the weather call, then the lodging call, no call of an
\* earlier kind after one of a later kind.
C10_CallOrder ==
    /\ OneModelCallFirst
    /\ \A i \in 1..Len(calls) : \A j \in (i + 1)..Len(calls) :
          (calls[i].kind \in SweepKinds /\ calls[j].kind \in SweepKinds) =>
              SweepRank(calls[i].kind) <= SweepRank(calls[j].kind)

\* The calls of the loop over the days, and those of the logistics tab.
DayKinds == {"place", "route"}

\* Call a may precede call b in the order of the code: the days in turn,
\* within a day its place lookups then its routing calls; after the last day
\* the lodging call and then the weather call.
MayPrecede(a, b) ==
    IF a.kind \in DayKinds /\ b.kind \in DayKinds
    THEN a.day < b.day \/ (a.day = b.day /\ SweepRank(a.kind) <= SweepRank(b.kind))
    ELSE IF a.kind \in DayKinds THEN TRUE
    ELSE a.kind = "lodging" /\ b.kind = "weather"

\* C10 (amended): one language-model call, first; then, day by day, the day's
\* place lookups followed by the day's routing calls; then at most one
\* lodging call followed by at most one weather call; no call of this order
\* occurs after a later one.
C10_CallOrderByDay ==
    /\ OneModelCallFirst
    /\ \A i \in 1..Len(calls) : \A j \in (i + 1)..Len(calls) :
          (calls[i].kind \in SweepKinds /\ calls[j].kind \in SweepKinds) =>
              MayPrecede(calls[i], calls[j])

\* A finished run of two days in which a place lookup of the second day
\* followed a routing call of the first, ending with lodging then weather.
C10_Witness ==
    /\ pc = "done"
    /\ Len(calls) >= 2
    /\ calls[Len(calls) - 1].kind = "lodging"
    /\ calls[Len(calls)].kind = "weather"
    /\ \E i \in 1..Len(calls) : \E j \in (i + 1)..Len(calls) :
          calls[i] = Call("route", 1) /\ calls[j] = Call("place", 2)


\* The tabs of the main interface have been rendered in this script run
\* (lines 349-404), from the itinerary and the map dataset the session holds.
TabsRendered ==
    /\ pc \in {"hotels", "weather", "done"}
    /\ Truthy(itinerary_data)

\* The map point line 315 builds for a resolved activity.
PointOf(day, activity) ==
    [lat |-> Val(Val(activity.details).lat), lon |-> Val(Val(activity.details).lon),
     name |-> Val(activity.details).name, day |-> day.day]

\* Every point of the held map dataset is the point of an activity of the
\* held itinerary whose place lookup resolved coordinates.
MapOfHeldItinerary ==
    \A i \in 1..Len(Val(map_data).points) :
        \E d \in 1..Len(Days) : \E k \in 1..Len(Days[d].activities) :
            /\ Resolved(Days[d].activities[k])
            /\ Val(map_data).points[i] = PointOf(Days[d], Days[d].activities[k])

\* C11: in any script run of a session, whenever the tabs are rendered from a
\* held itinerary and a held map dataset, every map point belongs to a
\* resolved activity of that itinerary: a map dataset of an earlier request
\* is never shown with a newer itinerary.
C11_MapMatchesItinerary ==
    (TabsRendered /\ Truthy(map_data)) => MapOfHeldItinerary

====
